---------------------------- MODULE Spec2Model ----------------------------
(***************************************************************************)
(* Model of the ITMO rating parser (src/app.py, src/main.py).              *)
(*                                                                         *)
(* Text is modelled as a sequence of one-character strings, so that        *)
(* strip(), lower(), int(), float() and the substring test are computed    *)
(* the way Python computes them.  Cyrillic literals of the source are      *)
(* transliterated: "da" for the yes-token, "VE" for the entrance-exam      *)
(* category, "BVI" and "Vse" for the two sentinels of the exam-type        *)
(* selector.  Floats are held as integers in tenths (Scale).               *)
(* Python's None is <<"None">> for Optional[str] and <<>> for the other    *)
(* Optional types, whose values are the one-element sequences <<v>>.       *)
(***************************************************************************)
EXTENDS Integers, Sequences, FiniteSets, TLC

VARIABLES
    \* --- cache / executor (src/app.py 9-28) ---
    clock,      \* time.time()
    ticks,      \* how many times the clock advanced (bounded)
    cache,      \* app_data['cached_applicants']: url -> entry or NoEntry
    queue,      \* executor's work queue: urls of submitted parse_and_cache tasks
    pc,         \* per request thread: position inside get_applicants_with_cache
    loc,        \* per request thread: locals (url, now, data)
    ret,        \* per request thread: outcome of its last finished call
    wpc,        \* per pool worker: position inside parse_and_cache ("failed":
                \* its last task ended in the except clause)
    wloc,       \* per pool worker: locals (url, applicants)
    fetchSeq,   \* number of requests.get calls made so far
    \* --- extraction (parse_itmo_rating of both files) ---
    pwho,       \* which parse_itmo_rating ran last: "none", "app", "main"
    pdoc,       \* the response it was given
    pflt,       \* main.py only: (ovp_filter, vpp_filter, consent_filter)
    pout,       \* what it returned or raised
    \* --- filter engine (src/app.py 64-170) ---
    fin,        \* the list passed to filter_applicants (the Applicant objects)
    farg,       \* the keyword arguments of the last call
    fout        \* the outcome of the last call

cacheVars == <<clock, ticks, cache, queue, pc, loc, ret, wpc, wloc, fetchSeq>>
parseVars == <<pwho, pdoc, pflt, pout>>
filterVars == <<fin, farg, fout>>
vars == <<cacheVars, parseVars, filterVars>>

-----------------------------------------------------------------------------
(* Bounds *)
MaxCards == 3
MaxTicks == 1
MaxFetches == 3
MaxQueue == 1
MaxApplicants == 3

-----------------------------------------------------------------------------
(* Python values *)

NoneStr == <<"None">>
NoneVal == <<>>
Some(v) == <<v>>

Scale == 10

Whitespace == {" "}

Digits == <<"0", "1", "2", "3", "4", "5", "6", "7", "8", "9">>

IsDigit(c) == \E i \in 1..10 : Digits[i] = c

DigitVal(c) == (CHOOSE i \in 1..10 : Digits[i] = c) - 1

RECURSIVE LStrip(_)
LStrip(s) == IF s # <<>> /\ Head(s) \in Whitespace THEN LStrip(Tail(s)) ELSE s

RECURSIVE RStrip(_)
RStrip(s) ==
    IF s # <<>> /\ s[Len(s)] \in Whitespace
    THEN RStrip(SubSeq(s, 1, Len(s) - 1))
    ELSE s

\* str.strip()
Strip(s) == RStrip(LStrip(s))

LowerChar(c) ==
    CASE c = "A" -> "a"
      [] c = "B" -> "b"
      [] c = "D" -> "d"
      [] c = "E" -> "e"
      [] c = "I" -> "i"
      [] c = "N" -> "n"
      [] c = "T" -> "t"
      [] c = "V" -> "v"
      [] OTHER -> c

\* str.lower()
Lower(s) == [i \in 1..Len(s) |-> LowerChar(s[i])]

\* needle in hay
Contains(hay, needle) ==
    \E i \in 0..(Len(hay) - Len(needle)) :
        SubSeq(hay, i + 1, i + Len(needle)) = needle

AllDigits(s) == \A i \in 1..Len(s) : IsDigit(s[i])

RECURSIVE DigitsValue(_)
DigitsValue(s) ==
    IF s = <<>> THEN 0
    ELSE 10 * DigitsValue(SubSeq(s, 1, Len(s) - 1)) + DigitVal(s[Len(s)])

HasSign(s) == s # <<>> /\ Head(s) \in {"-", "+"}

Unsigned(s) == IF HasSign(s) THEN Tail(s) ELSE s

Signed(s, n) == IF s # <<>> /\ Head(s) = "-" THEN 0 - n ELSE n

\* int(text): NoneVal when Python raises (text None, or not an integer literal)
ParseInt(text) ==
    IF text = NoneStr THEN NoneVal
    ELSE LET t == Strip(text)
             u == Unsigned(t)
         IN  IF u # <<>> /\ AllDigits(u) THEN Some(Signed(t, DigitsValue(u)))
             ELSE NoneVal

DotAt(u) == {i \in 1..Len(u) : u[i] = "."}

\* float(text), in tenths: NoneVal when Python raises.  The texts of the model
\* carry at most one digit after the point and no exponent, inf or nan.
ParseFloat(text) ==
    IF text = NoneStr THEN NoneVal
    ELSE LET t == Strip(text)
             u == Unsigned(t)
         IN  IF u # <<>> /\ AllDigits(u)
             THEN Some(Signed(t, Scale * DigitsValue(u)))
             ELSE IF Cardinality(DotAt(u)) = 1
             THEN LET d == CHOOSE i \in DotAt(u) : TRUE
                      ip == SubSeq(u, 1, d - 1)
                      fp == SubSeq(u, d + 1, Len(u))
                  IN  IF /\ AllDigits(ip) /\ AllDigits(fp)
                         /\ Len(ip) + Len(fp) > 0 /\ Len(fp) <= 1
                      THEN Some(Signed(t, Scale * DigitsValue(ip) + DigitsValue(fp)))
                      ELSE NoneVal
             ELSE NoneVal

YES == <<"d", "a">>
VE == <<"V", "E">>
BVI == <<"B", "V", "I">>
ALL == <<"V", "s", "e">>

\* span.text.strip().lower() == 'da'; NoneVal when the span is absent
ParseYes(text) ==
    IF text = NoneStr THEN NoneVal ELSE Some(Lower(Strip(text)) = YES)

\* span.text.strip(); NoneVal when the span is absent
ParseText(text) ==
    IF text = NoneStr THEN NoneVal ELSE Some(Strip(text))

\* sequences over S of length at most n
RECURSIVE SeqUpTo(_, _)
SeqUpTo(S, n) ==
    IF n = 0 THEN {<<>>}
    ELSE LET shorter == SeqUpTo(S, n - 1)
         IN  shorter \cup {Append(s, x) : s \in {t \in shorter : Len(t) = n - 1}, x \in S}

RECURSIVE InsertByPositionUnstable(_, _)
InsertByPositionUnstable(sorted, a) ==
    IF sorted = <<>> THEN <<a>>
    ELSE IF sorted[Len(sorted)].position < a.position THEN Append(sorted, a)
    ELSE Append(InsertByPositionUnstable(SubSeq(sorted, 1, Len(sorted) - 1), a),
                sorted[Len(sorted)])

\* sorted(xs, key=lambda x: x.position): stable
RECURSIVE InsertByPosition(_, _)
InsertByPosition(sorted, a) ==
    IF sorted = <<>> THEN <<a>>
    ELSE IF sorted[Len(sorted)].position <= a.position THEN Append(sorted, a)
    ELSE Append(InsertByPosition(SubSeq(sorted, 1, Len(sorted) - 1), a),
                sorted[Len(sorted)])

RECURSIVE SortedByPosition(_)
SortedByPosition(xs) ==
    IF xs = <<>> THEN <<>>
    ELSE InsertByPosition(SortedByPosition(SubSeq(xs, 1, Len(xs) - 1)), xs[Len(xs)])

-----------------------------------------------------------------------------
(* Cards and documents *)

\* One card block: the text of each labelled span, NoneStr where select_one
\* finds nothing (or the position block is absent or empty).
Card(pos, id, et, eid, es, ts, avg, prio, o, v, c) ==
    [position |-> pos, application_id |-> id, exam_type |-> et, exam_id |-> eid,
     exam_score |-> es, total_score |-> ts, average_score |-> avg,
     priority |-> prio, ovp |-> o, vpp |-> v, consent |-> c]

CardA == Card(<<"1">>, <<"a", "1">>, VE, <<"5">>, <<"8", "0">>, <<"8", "5">>,
              <<"4", ".", "5">>, <<"1">>, <<"D", "a">>, <<"n", "e", "t">>,
              <<" ", "d", "a", " ">>)
CardB == Card(<<" ", "2">>, <<"B", "2", " ">>, <<"O", "L">>, <<"0">>, <<"9", "0">>,
              <<"9", "0", ".", "0">>, <<"5">>, <<" ", "2">>, <<"n", "e", "t">>,
              <<"d", "a">>, <<"n", "e", "t">>)
CardNoPriority == [CardA EXCEPT !.priority = NoneStr]
CardBadScore == [CardB EXCEPT !.exam_score = <<"a", "b">>]
CardNoAverage == [CardA EXCEPT !.average_score = NoneStr, !.position = <<"3">>]
CardNoPosition == [CardB EXCEPT !.position = NoneStr]

CardPool == {CardA, CardB, CardNoPriority, CardBadScore, CardNoAverage, CardNoPosition}

\* Five well-formed cards and one malformed card.
ExampleDoc == <<CardA, CardB, CardNoPriority, CardA, CardB, CardA>>

\* What requests.get + raise_for_status + soup.select give: the card blocks of
\* the page, or a transport failure.
Response(isOk, cardSeq) == [ok |-> isOk, cards |-> cardSeq]
FetchFailed == Response(FALSE, <<>>)

Responses ==
    {FetchFailed} \cup {Response(TRUE, d) : d \in SeqUpTo(CardPool, MaxCards) \cup {ExampleDoc}}

Returned(recs) == [kind |-> "ok", recs |-> recs]
Raised == [kind |-> "raise", recs |-> <<>>]

\* The parsed fields of a card, each NoneVal when its expression raises.
Fields(card) ==
    [position |-> ParseInt(card.position),
     application_id |-> ParseText(card.application_id),
     exam_type |-> ParseText(card.exam_type),
     exam_id |-> ParseInt(card.exam_id),
     exam_score |-> ParseFloat(card.exam_score),
     total_score |-> ParseFloat(card.total_score),
     average_score |-> ParseFloat(card.average_score),
     priority |-> ParseInt(card.priority),
     ovp |-> ParseYes(card.ovp),
     vpp |-> ParseYes(card.vpp),
     consent |-> ParseYes(card.consent)]

FieldNames == DOMAIN Fields(CardA)

\* app.py's dataclass; filtered_position defaults to 0
Applicant(f) ==
    [position |-> f.position[1], application_id |-> f.application_id[1],
     exam_type |-> f.exam_type[1], exam_id |-> f.exam_id[1],
     exam_score |-> f.exam_score[1], total_score |-> f.total_score[1],
     average_score |-> f.average_score[1], priority |-> f.priority[1],
     ovp |-> f.ovp[1], vpp |-> f.vpp[1], consent |-> f.consent[1],
     filtered_position |-> 0]

\* Body of app.py's per-card try: NoneVal when anything in it raises.
AppParseCard(card) ==
    LET f == Fields(card)
    IN  IF \E n \in FieldNames : f[n] = NoneVal THEN NoneVal ELSE Some(Applicant(f))

RECURSIVE AppParseCards(_)
AppParseCards(cards) ==
    IF cards = <<>> THEN <<>>
    ELSE LET r == AppParseCard(Head(cards))
         IN  IF r = NoneVal THEN AppParseCards(Tail(cards))
             ELSE <<r[1]>> \o AppParseCards(Tail(cards))

\* app.py parse_itmo_rating
AppParseItmoRating(resp) ==
    IF ~resp.ok THEN Raised ELSE Returned(AppParseCards(resp.cards))


\* main.py's dataclass (no filtered_position)
MainApplicant(f) ==
    [position |-> f.position[1], application_id |-> f.application_id[1],
     exam_type |-> f.exam_type[1], exam_id |-> f.exam_id[1],
     exam_score |-> f.exam_score[1], total_score |-> f.total_score[1],
     average_score |-> f.average_score[1], priority |-> f.priority[1],
     ovp |-> f.ovp[1], vpp |-> f.vpp[1], consent |-> f.consent[1]]

\* main.py parse_applicant_card: NoneVal when it raises.  An absent average
\* score span gives 0.0 instead of raising.
parse_applicant_card(card) ==
    LET g == Fields(card)
        f == IF card.average_score = NoneStr
             THEN [g EXCEPT !.average_score = Some(0)]
             ELSE g
    IN  IF \E n \in FieldNames : f[n] = NoneVal THEN NoneVal ELSE Some(MainApplicant(f))

\* [a for a in xs if a.<flag> == want] when want is not None
KeepFlag(xs, flag, want) ==
    IF want = NoneVal THEN xs ELSE SelectSeq(xs, LAMBDA a : a[flag] = want[1])

\* main.py filter_applicants
MainFilterApplicants(applicants, o, v, c) ==
    SortedByPosition(KeepFlag(KeepFlag(KeepFlag(applicants, "ovp", o), "vpp", v), "consent", c))

\* main.py parse_itmo_rating; flt = <<ovp_filter, vpp_filter, consent_filter>>
MainParseItmoRating(resp, flt) ==
    IF ~resp.ok THEN Raised
    ELSE IF resp.cards = <<>> THEN Raised
    ELSE LET parsed == [i \in 1..Len(resp.cards) |-> parse_applicant_card(resp.cards[i])]
         IN  IF \E i \in 1..Len(parsed) : parsed[i] = NoneVal THEN Raised
             ELSE LET applicants == [i \in 1..Len(parsed) |-> parsed[i][1]]
                  IN  IF \E k \in 1..3 : flt[k] # NoneVal
                      THEN Returned(MainFilterApplicants(applicants, flt[1], flt[2], flt[3]))
                      ELSE Returned(applicants)

OptBool == {NoneVal, Some(TRUE), Some(FALSE)}
NoFilters == <<NoneVal, NoneVal, NoneVal>>

-----------------------------------------------------------------------------
(* Extraction on its own: each parse_itmo_rating applied to a response *)

ParseIdle ==
    /\ pwho = "none"
    /\ pdoc = FetchFailed
    /\ pflt = NoFilters
    /\ pout = Raised

\* app.parse_itmo_rating(url)
AppExtract ==
    /\ pwho = "none"
    /\ \E resp \in Responses :
        /\ pwho' = "app"
        /\ pdoc' = resp
        /\ pflt' = NoFilters
        /\ pout' = AppParseItmoRating(resp)
        /\ UNCHANGED <<cacheVars, filterVars>>

\* main.parse_itmo_rating(url, ovp_filter, vpp_filter, consent_filter)
MainExtract ==
    /\ pwho = "none"
    /\ \E resp \in Responses, o \in OptBool, v \in OptBool, c \in OptBool :
        /\ pwho' = "main"
        /\ pdoc' = resp
        /\ pflt' = <<o, v, c>>
        /\ pout' = MainParseItmoRating(resp, <<o, v, c>>)
        /\ UNCHANGED <<cacheVars, filterVars>>

-----------------------------------------------------------------------------
(* Cache and background refresh (src/app.py 9-28) *)

CACHE_TTL == 5 * 60

max_workers == 2

Urls == {"u1"}
Threads == {"t1", "t2"}
Workers == 1..max_workers

\* How far one step of the clock may move it.
TickSteps == {CACHE_TTL - 1, CACHE_TTL}

\* The pages the rating site may answer with while the cache is exercised.
SourceResponses ==
    {FetchFailed, Response(TRUE, <<>>), Response(TRUE, <<CardB, CardNoPriority>>)}

\* What one successful parse_itmo_rating call returned: the list, tagged with
\* the ordinal of the requests.get that produced it and the number of card
\* blocks the page held.
Extraction(recs, no, n) == [recs |-> recs, fetchNo |-> no, ncards |-> n]
NoData == Extraction(<<>>, 0, 0)

\* {'ts': ts, 'data': data}
Entry(ts, data) == [ts |-> ts, data |-> data]

Outcome(kind, data) == [kind |-> kind, data |-> data]

Locals(url, now, data) == [url |-> url, now |-> now, data |-> data]
NoLocals == Locals("u1", 0, NoData)

WorkerLocals(url, data) == [url |-> url, applicants |-> data]
NoWorkerLocals == WorkerLocals("u1", NoData)

CacheInit ==
    /\ clock = 0
    /\ ticks = 0
    /\ cache = [u \in Urls |-> NoneVal]
    /\ queue = <<>>
    /\ pc = [t \in Threads |-> "idle"]
    /\ loc = [t \in Threads |-> NoLocals]
    /\ ret = [t \in Threads |-> Outcome("none", NoData)]
    /\ wpc = [w \in Workers |-> "idle"]
    /\ wloc = [w \in Workers |-> NoWorkerLocals]
    /\ fetchSeq = 0

IsFreshReversed(entry, now) == entry # NoneVal /\ now - entry[1].ts > CACHE_TTL

\* entry and now - entry['ts'] < CACHE_TTL
IsFresh(entry, now) == entry # NoneVal /\ now - entry[1].ts < CACHE_TTL

NoSubmit(q, url) == q

\* executor.submit(parse_and_cache, url)
Submit(q, url) == Append(q, url)

\* time passes
Tick ==
    /\ ticks < MaxTicks
    /\ \E d \in TickSteps : clock' = clock + d
    /\ ticks' = ticks + 1
    /\ UNCHANGED <<cache, queue, pc, loc, ret, wpc, wloc, fetchSeq>>
    /\ UNCHANGED <<parseVars, filterVars>>

\* get_applicants_with_cache(url), line 19: now = time.time()
Call(t, url) ==
    /\ pc[t] = "idle"
    /\ pc' = [pc EXCEPT ![t] = "get"]
    /\ loc' = [loc EXCEPT ![t] = Locals(url, clock, NoData)]
    /\ ret' = [ret EXCEPT ![t] = Outcome("none", NoData)]
    /\ UNCHANGED <<clock, ticks, cache, queue, wpc, wloc, fetchSeq>>
    /\ UNCHANGED <<parseVars, filterVars>>

\* lines 20-22: the entry is fresh
FreshHit(t) ==
    /\ pc[t] = "get"
    /\ LET entry == cache[loc[t].url]
       IN  /\ IsFresh(entry, loc[t].now)
           /\ ret' = [ret EXCEPT ![t] = Outcome("fresh", entry[1].data)]
    /\ pc' = [pc EXCEPT ![t] = "idle"]
    /\ loc' = [loc EXCEPT ![t] = NoLocals]
    /\ UNCHANGED <<clock, ticks, cache, queue, wpc, wloc, fetchSeq>>
    /\ UNCHANGED <<parseVars, filterVars>>

\* lines 20-25: the entry is stale
StaleHit(t) ==
    /\ pc[t] = "get"
    /\ Len(queue) < MaxQueue
    /\ LET entry == cache[loc[t].url]
       IN  /\ entry # NoneVal
           /\ ~IsFresh(entry, loc[t].now)
           /\ ret' = [ret EXCEPT ![t] = Outcome("stale", entry[1].data)]
    /\ queue' = Submit(queue, loc[t].url)
    /\ pc' = [pc EXCEPT ![t] = "idle"]
    /\ loc' = [loc EXCEPT ![t] = NoLocals]
    /\ UNCHANGED <<clock, ticks, cache, wpc, wloc, fetchSeq>>
    /\ UNCHANGED <<parseVars, filterVars>>

\* lines 20-23: no entry
Miss(t) ==
    /\ pc[t] = "get"
    /\ cache[loc[t].url] = NoneVal
    /\ pc' = [pc EXCEPT ![t] = "parse"]
    /\ UNCHANGED <<clock, ticks, cache, queue, loc, ret, wpc, wloc, fetchSeq>>
    /\ UNCHANGED <<parseVars, filterVars>>

\* line 26: data = parse_itmo_rating(url) returns
MissExtract(t) ==
    /\ pc[t] = "parse"
    /\ fetchSeq < MaxFetches
    /\ \E resp \in SourceResponses :
        LET out == AppParseItmoRating(resp)
        IN  /\ out.kind = "ok"
            /\ loc' = [loc EXCEPT ![t].data =
                          Extraction(out.recs, fetchSeq + 1, Len(resp.cards))]
    /\ fetchSeq' = fetchSeq + 1
    /\ pc' = [pc EXCEPT ![t] = "store"]
    /\ UNCHANGED <<clock, ticks, cache, queue, ret, wpc, wloc>>
    /\ UNCHANGED <<parseVars, filterVars>>

\* line 26: parse_itmo_rating(url) raises, and so does the call
MissRaises(t) ==
    /\ pc[t] = "parse"
    /\ fetchSeq < MaxFetches
    /\ \E resp \in SourceResponses : AppParseItmoRating(resp).kind = "raise"
    /\ fetchSeq' = fetchSeq + 1
    /\ ret' = [ret EXCEPT ![t] = Outcome("error", NoData)]
    /\ pc' = [pc EXCEPT ![t] = "idle"]
    /\ loc' = [loc EXCEPT ![t] = NoLocals]
    /\ UNCHANGED <<clock, ticks, cache, queue, wpc, wloc>>
    /\ UNCHANGED <<parseVars, filterVars>>

\* lines 27-28
MissStore(t) ==
    /\ pc[t] = "store"
    /\ cache' = [cache EXCEPT ![loc[t].url] = Some(Entry(loc[t].now, loc[t].data))]
    /\ ret' = [ret EXCEPT ![t] = Outcome("miss", loc[t].data)]
    /\ pc' = [pc EXCEPT ![t] = "idle"]
    /\ loc' = [loc EXCEPT ![t] = NoLocals]
    /\ UNCHANGED <<clock, ticks, queue, wpc, wloc, fetchSeq>>
    /\ UNCHANGED <<parseVars, filterVars>>

\* a pool worker takes the oldest submitted task
RefreshStart(w) ==
    /\ wpc[w] \in {"idle", "failed"}
    /\ queue # <<>>
    /\ wloc' = [wloc EXCEPT ![w] = WorkerLocals(Head(queue), NoData)]
    /\ queue' = Tail(queue)
    /\ wpc' = [wpc EXCEPT ![w] = "parse"]
    /\ UNCHANGED <<clock, ticks, cache, pc, loc, ret, fetchSeq>>
    /\ UNCHANGED <<parseVars, filterVars>>

\* parse_and_cache, line 13: parse_itmo_rating(url) returns
RefreshExtract(w) ==
    /\ wpc[w] = "parse"
    /\ fetchSeq < MaxFetches
    /\ \E resp \in SourceResponses :
        LET out == AppParseItmoRating(resp)
        IN  /\ out.kind = "ok"
            /\ wloc' = [wloc EXCEPT ![w].applicants =
                           Extraction(out.recs, fetchSeq + 1, Len(resp.cards))]
    /\ fetchSeq' = fetchSeq + 1
    /\ wpc' = [wpc EXCEPT ![w] = "store"]
    /\ UNCHANGED <<clock, ticks, cache, queue, pc, loc, ret>>
    /\ UNCHANGED <<parseVars, filterVars>>

RefreshFailsEvicts(w) ==
    /\ wpc[w] = "parse"
    /\ fetchSeq < MaxFetches
    /\ \E resp \in SourceResponses : AppParseItmoRating(resp).kind = "raise"
    /\ fetchSeq' = fetchSeq + 1
    /\ cache' = [cache EXCEPT ![wloc[w].url] = NoneVal]
    /\ wpc' = [wpc EXCEPT ![w] = "failed"]
    /\ wloc' = [wloc EXCEPT ![w] = NoWorkerLocals]
    /\ UNCHANGED <<clock, ticks, queue, pc, loc, ret>>
    /\ UNCHANGED <<parseVars, filterVars>>

\* parse_and_cache, lines 13, 15-16: parse_itmo_rating(url) raises; printed
RefreshFails(w) ==
    /\ wpc[w] = "parse"
    /\ fetchSeq < MaxFetches
    /\ \E resp \in SourceResponses : AppParseItmoRating(resp).kind = "raise"
    /\ fetchSeq' = fetchSeq + 1
    /\ wpc' = [wpc EXCEPT ![w] = "failed"]
    /\ wloc' = [wloc EXCEPT ![w] = NoWorkerLocals]
    /\ UNCHANGED <<clock, ticks, cache, queue, pc, loc, ret>>
    /\ UNCHANGED <<parseVars, filterVars>>

\* parse_and_cache, line 14
RefreshStore(w) ==
    /\ wpc[w] = "store"
    /\ cache' = [cache EXCEPT ![wloc[w].url] = Some(Entry(clock, wloc[w].applicants))]
    /\ wpc' = [wpc EXCEPT ![w] = "idle"]
    /\ wloc' = [wloc EXCEPT ![w] = NoWorkerLocals]
    /\ UNCHANGED <<clock, ticks, queue, pc, loc, ret, fetchSeq>>
    /\ UNCHANGED <<parseVars, filterVars>>

-----------------------------------------------------------------------------
(* Filter engine and cohort statistics (src/app.py 64-170) *)

\* truthiness of an Optional[str]
Truthy(s) == s # NoneStr /\ s # <<>>

GE == <<"g", "e">>
G == <<"g">>
LE == <<"l", "e">>
L == <<"l">>
EQ == <<"e", "q">>

cmpInclusive(value, op, ref) ==
    IF op = GE THEN value >= ref
    ELSE IF op = G THEN value >= ref
    ELSE IF op = LE THEN value <= ref
    ELSE IF op = L THEN value <= ref
    ELSE IF op = EQ THEN value = ref
    ELSE TRUE

\* the nested cmp(value, op, ref)
cmp(value, op, ref) ==
    IF op = GE THEN value >= ref
    ELSE IF op = G THEN value > ref
    ELSE IF op = LE THEN value <= ref
    ELSE IF op = L THEN value < ref
    ELSE IF op = EQ THEN value = ref
    ELSE TRUE

\* [i for i in ix if xs[i].<flag> == want] when want is not None
KeepFlagRefs(xs, ix, flag, want) ==
    IF want = NoneVal THEN ix ELSE SelectSeq(ix, LAMBDA i : xs[i][flag] = want[1])

\* lines 103-104
KeepSearch(xs, ix, search_id) ==
    IF Truthy(search_id) /\ Strip(search_id) # <<>>
    THEN SelectSeq(ix, LAMBDA i :
             Contains(Lower(xs[i].application_id), Lower(Strip(search_id))))
    ELSE ix

\* lines 105-109
KeepExamType(xs, ix, exam_type) ==
    IF Truthy(exam_type) /\ exam_type # ALL /\ Strip(exam_type) # <<>>
    THEN IF exam_type = BVI
         THEN SelectSeq(ix, LAMBDA i : xs[i].exam_type # VE)
         ELSE SelectSeq(ix, LAMBDA i : xs[i].exam_type = exam_type)
    ELSE ix

\* line 111: min(a, b), max(a, b); NoneVal when Python raises TypeError
\* (either argument None)
MinMax(a, b) ==
    IF a = NoneVal \/ b = NoneVal THEN NoneVal
    ELSE Some(<<IF b[1] < a[1] THEN b[1] ELSE a[1], IF b[1] > a[1] THEN b[1] ELSE a[1]>>)

\* lines 113-116
KeepPriority(xs, ix, lo, hi) ==
    LET above == IF lo # NoneVal
                 THEN SelectSeq(ix, LAMBDA i : xs[i].priority >= lo[1])
                 ELSE ix
    IN  IF hi # NoneVal
        THEN SelectSeq(above, LAMBDA i : xs[i].priority <= hi[1])
        ELSE above

\* lines 118-123 (and 125-130, 132-137): one score comparison
KeepScore(xs, ix, field, op, val) ==
    IF Truthy(op) /\ Truthy(val)
    THEN LET ref == ParseFloat(val)
         IN  IF ref = NoneVal THEN ix
             ELSE SelectSeq(ix, LAMBDA i : cmp(xs[i][field], op, ref[1]))
    ELSE ix

\* line 140: sorted(filtered, key=lambda x: x.position), on references
SortRefs(xs, ix) ==
    LET keyed == [j \in 1..Len(ix) |-> [position |-> xs[ix[j]].position, ref |-> ix[j]]]
        s == SortedByPosition(keyed)
    IN  [j \in 1..Len(s) |-> s[j].ref]

\* lines 141-142: app.filtered_position = idx, on the objects of the input list
Renumber(xs, sorted) ==
    [i \in 1..Len(xs) |->
        IF \E k \in 1..Len(sorted) : sorted[k] = i
        THEN [xs[i] EXCEPT !.filtered_position = CHOOSE k \in 1..Len(sorted) : sorted[k] = i]
        ELSE xs[i]]

NoStats == [kind |-> "empty", total_before_me |-> 0, bvi_before |-> 0,
            ovp_before |-> 0, consent_before |-> 0, my_row |-> NoneVal]
NotFound == [NoStats EXCEPT !.kind = "not_found"]

CountIf(xs, P(_)) == Len(SelectSeq(xs, P))

BeforeInclusive(rows, me) == SubSeq(rows, 1, me)

\* line 152: filtered_sorted[:idx_myself], me being idx_myself + 1
Before(rows, me) == SubSeq(rows, 1, me - 1)

\* lines 145-162; rows = filtered_sorted
Stats(rows, stats_id) ==
    IF Truthy(stats_id) /\ Strip(stats_id) # <<>>
    THEN LET sid == Strip(stats_id)
             hits == {i \in 1..Len(rows) : rows[i].application_id = sid}
         IN  IF hits # {}
             THEN LET me == CHOOSE i \in hits : \A j \in hits : i <= j
                      before_me == Before(rows, me)
                  IN  [kind |-> "found",
                       total_before_me |-> Len(before_me),
                       bvi_before |-> CountIf(before_me, LAMBDA a : a.exam_type # VE),
                       ovp_before |-> CountIf(before_me, LAMBDA a : a.ovp),
                       consent_before |-> CountIf(before_me, LAMBDA a : a.consent),
                       my_row |-> Some(rows[me])]
             ELSE NotFound
    ELSE NoStats

\* lines 145-162: stats_list
StatsList(rows, stats) ==
    IF stats.kind = "found" THEN SubSeq(rows, 1, stats.total_before_me) ELSE <<>>

FilterRaised ==
    [kind |-> "raise", applicants |-> <<>>, refs |-> <<>>, total_count |-> 0,
     filtered_count |-> 0, stats |-> NoStats, stats_list |-> <<>>]
NotCalled == [FilterRaised EXCEPT !.kind = "none"]

\* lines 97-137: the references that pass every filter; NoneVal when line 111 raises
Filtered(xs, a) ==
    LET all == [i \in 1..Len(xs) |-> i]
        f1 == KeepFlagRefs(xs, all, "ovp", a.ovp)
        f2 == KeepFlagRefs(xs, f1, "vpp", a.vpp)
        f3 == KeepFlagRefs(xs, f2, "consent", a.consent)
        f4 == KeepSearch(xs, f3, a.search_id)
        f5 == KeepExamType(xs, f4, a.exam_type)
        mm == MinMax(a.priority_min, a.priority_max)
    IN  IF mm = NoneVal THEN NoneVal
        ELSE LET f6 == KeepPriority(xs, f5, Some(mm[1][1]), Some(mm[1][2]))
                 f7 == KeepScore(xs, f6, "average_score", a.average_score_op, a.average_score_val)
                 f8 == KeepScore(xs, f7, "exam_score", a.exam_score_op, a.exam_score_val)
                 f9 == KeepScore(xs, f8, "total_score", a.total_score_op, a.total_score_val)
             IN  Some(f9)

\* filter_applicants(applicants, **a): <<the returned dict, the input list afterwards>>
filter_applicants(xs, a) ==
    LET filtered == Filtered(xs, a)
    IN  IF filtered = NoneVal THEN <<FilterRaised, xs>>
        ELSE LET filtered_sorted == SortRefs(xs, filtered[1])
                 after == Renumber(xs, filtered_sorted)
                 rows == [k \in 1..Len(filtered_sorted) |-> after[filtered_sorted[k]]]
                 stats == Stats(rows, a.stats_id)
             IN  <<[kind |-> "ok", applicants |-> rows, refs |-> filtered_sorted,
                    total_count |-> Len(xs), filtered_count |-> Len(filtered[1]),
                    stats |-> stats, stats_list |-> StatsList(rows, stats)],
                   after>>

-----------------------------------------------------------------------------
(* The filter engine on its own: filter_applicants applied to a cached list *)

AP1 == Applicant(Fields(CardA))
AP2 == Applicant(Fields(CardB))
\* shares its position with AP1; still carries the rank an earlier call gave it
AP3 == [AP2 EXCEPT !.position = 1, !.application_id = <<"c", "3">>, !.exam_type = <<>>,
                   !.priority = 3, !.ovp = TRUE, !.filtered_position = 2]
\* shares its application_id with AP1
AP4 == [AP1 EXCEPT !.position = 3, !.priority = 5, !.consent = FALSE,
                   !.exam_score = 900]

ApplicantPool == {AP1, AP2, AP3, AP4}

FilterInputs == SeqUpTo(ApplicantPool, MaxApplicants)

\* index() after a form with every field left at its default, except the
\* priority bounds, which are set
DefaultArgs ==
    [ovp |-> NoneVal, vpp |-> NoneVal, consent |-> NoneVal,
     search_id |-> <<>>, exam_type |-> ALL, stats_id |-> <<>>,
     average_score_op |-> <<>>, average_score_val |-> <<>>,
     exam_score_op |-> <<>>, exam_score_val |-> <<>>,
     total_score_op |-> <<>>, total_score_val |-> <<>>,
     priority_min |-> Some(1), priority_max |-> Some(5)]

PriorityPairs ==
    {<<NoneVal, NoneVal>>, <<Some(1), NoneVal>>, <<NoneVal, Some(2)>>,
     <<Some(1), Some(2)>>, <<Some(3), Some(1)>>, <<Some(2), Some(2)>>}

SearchIds == {NoneStr, <<" ">>, <<"A", "1", " ">>, <<"2">>}
ExamTypes == {NoneStr, ALL, BVI, VE, <<" ">>, <<"O", "L">>}
StatsIds == {<<>>, <<" ">>, <<" ", "a", "1">>, <<"c", "3">>, <<"z">>}

Off == <<<<>>, <<>>>>
AverageFilters == {Off, <<GE, <<"4", ".", "6">>>>, <<EQ, <<" ", "4", ".", "5">>>>,
                   <<L, <<"a", "b">>>>, <<NoneStr, <<"5">>>>}
ExamFilters == {Off, <<G, <<"8", "0">>>>, <<LE, <<"8", "0", ".", "0">>>>, <<G, <<" ">>>>}
TotalFilters == {Off, <<L, <<"9", "0">>>>, <<<<"x">>, <<"0">>>>, <<GE, NoneStr>>}

WithFlags(a, o, v, c) == [a EXCEPT !.ovp = o, !.vpp = v, !.consent = c]
WithPriority(a, p) == [a EXCEPT !.priority_min = p[1], !.priority_max = p[2]]
WithText(a, s, e, st) == [a EXCEPT !.search_id = s, !.exam_type = e, !.stats_id = st]
WithScores(a, av, ex, to) ==
    [a EXCEPT !.average_score_op = av[1], !.average_score_val = av[2],
              !.exam_score_op = ex[1], !.exam_score_val = ex[2],
              !.total_score_op = to[1], !.total_score_val = to[2]]

\* The calls made: each group of fields over its whole range with the other
\* groups at their defaults, and every combination of one active value per field.
FilterArgs ==
    {WithPriority(WithFlags(DefaultArgs, o, v, c), p) :
        o \in OptBool, v \in OptBool, c \in OptBool, p \in PriorityPairs}
    \cup {WithPriority(WithText(DefaultArgs, s, e, st), p) :
        s \in SearchIds, e \in ExamTypes, st \in StatsIds,
        p \in {<<Some(1), Some(5)>>, <<Some(3), Some(1)>>}}
    \cup {WithScores(DefaultArgs, av, ex, to) :
        av \in AverageFilters, ex \in ExamFilters, to \in TotalFilters}
    \cup {WithScores(WithText(WithFlags(WithPriority(DefaultArgs, <<Some(5), Some(1)>>),
                                        o, v, c), s, e, <<"a", "1">>), av, ex, to) :
        o \in {NoneVal, Some(TRUE)}, v \in {NoneVal, Some(FALSE)},
        c \in {NoneVal, Some(TRUE)}, s \in {<<>>, <<"a">>}, e \in {ALL, BVI},
        av \in {Off, <<GE, <<"4", ".", "5">>>>}, ex \in {Off, <<LE, <<"9", "0">>>>},
        to \in {Off, <<L, <<"9", "0">>>>}}

FilterIdle ==
    /\ fin = <<>>
    /\ farg = DefaultArgs
    /\ fout = NotCalled

\* result = filter_applicants(applicants, ...)
FilterCall ==
    /\ fout.kind = "none"
    /\ \E a \in FilterArgs :
        LET r == filter_applicants(fin, a)
        IN  /\ farg' = a
            /\ fout' = r[1]
            /\ fin' = r[2]
    /\ UNCHANGED <<cacheVars, parseVars>>

-----------------------------------------------------------------------------
(* Specifications *)

Init == CacheInit /\ ParseIdle /\ FilterIdle

Next ==
    \/ Tick
    \/ \E t \in Threads, u \in Urls : Call(t, u)
    \/ \E t \in Threads : FreshHit(t)
    \/ \E t \in Threads : StaleHit(t)
    \/ \E t \in Threads : Miss(t)
    \/ \E t \in Threads : MissExtract(t)
    \/ \E t \in Threads : MissRaises(t)
    \/ \E t \in Threads : MissStore(t)
    \/ \E w \in Workers : RefreshStart(w)
    \/ \E w \in Workers : RefreshExtract(w)
    \/ \E w \in Workers : RefreshFails(w)
    \/ \E w \in Workers : RefreshStore(w)

\* the cache under concurrent requests and background refreshes
Spec == Init /\ [][Next]_vars

NextParse == AppExtract \/ MainExtract

\* extraction applied to every response
SpecParse == Init /\ [][NextParse]_vars

InitFilter ==
    /\ CacheInit
    /\ ParseIdle
    /\ fin \in FilterInputs
    /\ farg = DefaultArgs
    /\ fout = NotCalled

NextFilter == FilterCall

\* filter_applicants applied to every list and every call of FilterArgs
SpecFilter == InitFilter /\ [][NextFilter]_vars

-----------------------------------------------------------------------------
(* Properties of the cache, checked under Spec *)

\* Thread t leaves line 20-21 in this step.
Decides(t) == pc[t] = "get" /\ pc'[t] # "get"

\* C1: a call that finds an entry of age >= CACHE_TTL returns in that same
\* step, with the entry's data, having made no request to the site, and
\* having put exactly one parse_and_cache task for its url on the executor.
C1_StaleHitServesAndRefreshes ==
    [][\A t \in Threads :
        LET u == loc[t].url
            e == cache[u]
        IN  (Decides(t) /\ e # NoneVal /\ loc[t].now - e[1].ts >= CACHE_TTL)
            => /\ pc'[t] = "idle"
               /\ ret'[t].kind # "error"
               /\ ret'[t].data = e[1].data
               /\ queue' = Append(queue, u)
               /\ fetchSeq' = fetchSeq]_vars

\* a stale hit just returned: its task is queued and the entry is still there
C1_Witness ==
    \E t \in Threads, u \in Urls :
        /\ ret[t].kind = "stale"
        /\ cache[u] # NoneVal
        /\ ret[t].data = cache[u][1].data
        /\ clock - cache[u][1].ts >= CACHE_TTL
        /\ queue = <<u>>

\* C8: once an entry is stored, a call that finds it at age < CACHE_TTL
\* returns the stored data in that same step, makes no request to the site,
\* submits nothing, and leaves the cache as it was.
C8_FreshHitHasNoEffect ==
    [][\A t \in Threads :
        LET u == loc[t].url
            e == cache[u]
        IN  (Decides(t) /\ e # NoneVal /\ loc[t].now - e[1].ts < CACHE_TTL)
            => /\ pc'[t] = "idle"
               /\ ret'[t].kind # "error"
               /\ ret'[t].data = e[1].data
               /\ cache' = cache
               /\ queue' = queue
               /\ fetchSeq' = fetchSeq]_vars

\* a call returned the records a miss stored CACHE_TTL - 1 seconds earlier
C8_Witness ==
    \E t \in Threads, u \in Urls :
        /\ ret[t].kind = "fresh"
        /\ cache[u] # NoneVal
        /\ ret[t].data = cache[u][1].data
        /\ ret[t].data.recs # <<>>
        /\ clock - cache[u][1].ts = CACHE_TTL - 1
        /\ queue = <<>>

\* C9: when parse_and_cache fails, no request thread is affected and the
\* cache (every entry's timestamp and data) is left as it was.
C9_FailedRefreshKeepsEntry ==
    [][\A w \in Workers :
        (wpc[w] = "parse" /\ wpc'[w] = "failed")
        => /\ cache' = cache
           /\ ret' = ret
           /\ pc' = pc
           /\ loc' = loc]_vars

\* a refresh failed and the stale entry is still being served
C9_Witness ==
    \E w \in Workers, t \in Threads, u \in Urls :
        /\ wpc[w] = "failed"
        /\ cache[u] # NoneVal
        /\ cache[u][1].data.recs # <<>>
        /\ ret[t].kind = "stale"
        /\ ret[t].data = cache[u][1].data

\* C6: a page with no card blocks never yields a returned list: the miss
\* path neither reaches its store nor returns data extracted from such a page.
C6_ZeroCardsFatal ==
    \A t \in Threads :
        /\ pc[t] = "store" => loc[t].data.ncards > 0
        /\ ret[t].kind = "miss" => ret[t].data.ncards > 0

\* C10: an entry is never replaced by the result of an earlier request to the
\* site, and its timestamp never decreases.
C10_NoLostUpdate ==
    [][\A u \in Urls :
        (cache[u] # NoneVal /\ cache'[u] # cache[u])
        => /\ cache'[u] # NoneVal
           /\ cache'[u][1].data.fetchNo >= cache[u][1].data.fetchNo
           /\ cache'[u][1].ts >= cache[u][1].ts]_vars

-----------------------------------------------------------------------------
(* Properties of extraction, checked under SpecParse *)

\* every required field of the card is present and parses
WellFormed(card) == \A n \in FieldNames : Fields(card)[n] # NoneVal

\* one record per well-formed card, in document order
ExpectedRecords(cards, who) ==
    LET good == SelectSeq(cards, WellFormed)
    IN  [i \in 1..Len(good) |->
            IF who = "app" THEN Applicant(Fields(good[i])) ELSE MainApplicant(Fields(good[i]))]

\* C7: on a retrieved page with at least one card, parse_itmo_rating returns
\* (never raises) exactly one record per well-formed card, in document order.
C7_MalformedCardsSkipped ==
    (pwho # "none" /\ pdoc.ok /\ Len(pdoc.cards) >= 1 /\ pflt = NoFilters)
    => pout = Returned(ExpectedRecords(pdoc.cards, pwho))

\* app.py's parse_itmo_rating does what C7 says: five records of ExampleDoc's
\* six cards, and likewise on every page.
AppSkipsMalformedCards ==
    (pwho = "app" /\ pdoc.ok) => pout = Returned(ExpectedRecords(pdoc.cards, "app"))

\* main.py's parse_itmo_rating raises on a page with no cards.
MainRaisesOnZeroCards ==
    (pwho = "main" /\ pdoc.ok /\ pdoc.cards = <<>>) => pout = Raised

-----------------------------------------------------------------------------
(* Properties of the filter engine, checked under SpecFilter *)

Min2(x, y) == IF y < x THEN y ELSE x
Max2(x, y) == IF y > x THEN y ELSE x

ScoreActive(op, val) == Truthy(op) /\ Truthy(val) /\ ParseFloat(val) # NoneVal

ScoreHolds(value, op, val) ==
    LET ref == ParseFloat(val)[1]
    IN  /\ op = GE => value >= ref
        /\ op = G => value > ref
        /\ op = LE => value <= ref
        /\ op = L => value < ref
        /\ op = EQ => value = ref

SearchActive(a) == Truthy(a.search_id) /\ Strip(a.search_id) # <<>>

ExamTypeActive(a) ==
    Truthy(a.exam_type) /\ a.exam_type # ALL /\ Strip(a.exam_type) # <<>>

\* record r satisfies every active predicate of the call a
Satisfies(r, a) ==
    /\ a.ovp # NoneVal => r.ovp = a.ovp[1]
    /\ a.vpp # NoneVal => r.vpp = a.vpp[1]
    /\ a.consent # NoneVal => r.consent = a.consent[1]
    /\ SearchActive(a) =>
          \E i \in 1..Len(r.application_id), j \in 1..Len(r.application_id) :
              Lower(SubSeq(r.application_id, i, j)) = Lower(Strip(a.search_id))
    /\ ExamTypeActive(a) =>
          IF a.exam_type = BVI THEN r.exam_type # VE ELSE r.exam_type = a.exam_type
    /\ ScoreActive(a.average_score_op, a.average_score_val) =>
          ScoreHolds(r.average_score, a.average_score_op, a.average_score_val)
    /\ ScoreActive(a.exam_score_op, a.exam_score_val) =>
          ScoreHolds(r.exam_score, a.exam_score_op, a.exam_score_val)
    /\ ScoreActive(a.total_score_op, a.total_score_val) =>
          ScoreHolds(r.total_score, a.total_score_op, a.total_score_val)
    /\ (a.priority_min # NoneVal /\ a.priority_max # NoneVal) =>
          /\ Min2(a.priority_min[1], a.priority_max[1]) <= r.priority
          /\ r.priority <= Max2(a.priority_min[1], a.priority_max[1])

\* C2: in every returned result, filtered_count <= total_count = the size of
\* the input, and every listed record satisfies every active predicate.
C2_ResultSatisfiesFilters ==
    fout.kind = "ok" =>
        /\ fout.total_count = Len(fin)
        /\ fout.filtered_count <= fout.total_count
        /\ \A k \in 1..Len(fout.applicants) : Satisfies(fout.applicants[k], farg)

\* a call with a flag, the BVI selector and a parsed score comparison active
\* kept some records and dropped others
C2_Witness ==
    /\ fout.kind = "ok"
    /\ farg.ovp = Some(TRUE)
    /\ farg.exam_type = BVI
    /\ ScoreActive(farg.average_score_op, farg.average_score_val)
    /\ 0 < fout.filtered_count
    /\ fout.filtered_count < fout.total_count
    /\ \E i \in 1..Len(fin) : fin[i].exam_type = VE

\* C3: the returned list has filtered_count records, ascending by position,
\* records of equal position in input order, and the k-th of them (the input
\* object itself) carries filtered_position k.
C3_SortedAndRenumbered ==
    fout.kind = "ok" =>
        LET rows == fout.applicants
            refs == fout.refs
        IN  /\ Len(rows) = fout.filtered_count
            /\ Len(refs) = Len(rows)
            /\ \A k \in 1..Len(rows) :
                  /\ refs[k] \in 1..Len(fin)
                  /\ rows[k] = fin[refs[k]]
                  /\ rows[k].filtered_position = k
            /\ \A j \in 1..Len(rows), k \in 1..Len(rows) :
                  j < k =>
                      /\ rows[j].position <= rows[k].position
                      /\ rows[j].position = rows[k].position => refs[j] < refs[k]

\* three records were returned, two of them of equal position, in an order
\* other than the input's, one of them renumbered from an earlier rank
C3_Witness ==
    /\ fout.kind = "ok"
    /\ Len(fout.applicants) = 3
    /\ fout.refs # <<1, 2, 3>>
    /\ fout.applicants[1].position = fout.applicants[2].position
    /\ fout.applicants[1].application_id # fout.applicants[2].application_id
    /\ \E k \in 1..3 : fout.applicants[k] = [AP3 EXCEPT !.filtered_position = k] /\ k # 2

StatsActive(a) == Truthy(a.stats_id) /\ Strip(a.stats_id) # <<>>

\* C5: with a non-blank stats_id, stats is the not-found marker exactly when
\* no listed record has that (trimmed) application_id; otherwise it counts the
\* records before the first such record and shows that record.
C5_CohortStatistics ==
    (fout.kind = "ok" /\ StatsActive(farg)) =>
        LET rows == fout.applicants
            sid == Strip(farg.stats_id)
            hits == {i \in 1..Len(rows) : rows[i].application_id = sid}
        IN  /\ fout.stats.kind \in {"found", "not_found"}
            /\ fout.stats.kind = "not_found" <=> hits = {}
            /\ hits # {} =>
                  LET i == CHOOSE h \in hits : \A g \in hits : h <= g
                  IN  /\ fout.stats.total_before_me = i - 1
                      /\ fout.stats.bvi_before =
                            Cardinality({j \in 1..(i - 1) : rows[j].exam_type # VE})
                      /\ fout.stats.ovp_before =
                            Cardinality({j \in 1..(i - 1) : rows[j].ovp})
                      /\ fout.stats.consent_before =
                            Cardinality({j \in 1..(i - 1) : rows[j].consent})
                      /\ fout.stats.my_row = Some(rows[i])

\* the target is listed twice, and one record, of another exam type than VE,
\* precedes its first listing
C5_Witness ==
    /\ fout.kind = "ok"
    /\ StatsActive(farg)
    /\ fout.stats.kind = "found"
    /\ fout.stats.total_before_me = 1
    /\ fout.stats.bvi_before = 1
    /\ fout.stats.consent_before = 0
    /\ Len(fout.applicants) = 3
    /\ fout.applicants[3].application_id = fout.applicants[2].application_id

\* the bound of the priority range a call sets, NoneVal where it sets none
PriorityLo(a) ==
    IF a.priority_min # NoneVal /\ a.priority_max # NoneVal
    THEN Some(Min2(a.priority_min[1], a.priority_max[1]))
    ELSE a.priority_min
PriorityHi(a) ==
    IF a.priority_min # NoneVal /\ a.priority_max # NoneVal
    THEN Some(Max2(a.priority_min[1], a.priority_max[1]))
    ELSE a.priority_max

InPriorityRange(r, a) ==
    /\ PriorityLo(a) # NoneVal => r.priority >= PriorityLo(a)[1]
    /\ PriorityHi(a) # NoneVal => r.priority <= PriorityHi(a)[1]

OnlyPriorityActive(a) ==
    a = WithPriority(DefaultArgs, <<a.priority_min, a.priority_max>>)

\* C4: every call returns a result, whichever priority bounds are unset; the
\* listed records lie in the inclusive range between the bounds put in
\* ascending order, and with no other filter active every input record in
\* that range is listed.
C4_PriorityRange ==
    fout.kind # "none" =>
        /\ fout.kind = "ok"
        /\ \A k \in 1..Len(fout.applicants) : InPriorityRange(fout.applicants[k], farg)
        /\ OnlyPriorityActive(farg) =>
              \A i \in 1..Len(fin) :
                  InPriorityRange(fin[i], farg) => \E k \in 1..Len(fout.refs) : fout.refs[k] = i

\* With both bounds set the range filter does what C4 says (min=3, max=1
\* included).
PriorityRangeWhenBothSet ==
    (farg.priority_min # NoneVal /\ farg.priority_max # NoneVal) => C4_PriorityRange

\* With either bound unset line 111 raises TypeError.
RaisesWhenABoundIsUnset ==
    (fout.kind # "none" /\ (farg.priority_min = NoneVal \/ farg.priority_max = NoneVal))
    => fout.kind = "raise"

=============================================================================
